---- MODULE Spec2Model ----
(***************************************************************************)
(* Point-cloud post-processing of MultiModalDatasetBridges.                *)
(*                                                                         *)
(*   PointCloudSimulation/convert_to_npy.py   convert_bridge_data,         *)
(*                                            pc_norm,                     *)
(*                                            farthest_point_sample        *)
(*   PointCloudSimulation/run_simulations.py  pointcloud_complete_pipeline *)
(*                                                                         *)
(* Numbers.  numpy computes in floating point; the model computes in exact *)
(* arithmetic.  A number is a record [n, d, r] standing for                *)
(* (n / d) * sqrt(r): integers are [n, 1, 1], a colour byte divided by     *)
(* 255.0 is [n, 255, 1], a norm is [1, d, r].  d = 0 is the non-finite     *)
(* result of a division by zero: nan when n = 0, inf otherwise.  Rounding  *)
(* is not modelled.                                                        *)
(***************************************************************************)
EXTENDS Integers, Sequences, FiniteSets, TLC

(***************************************************************************)
(* Bounds.  TargetCount stands for the 8192 of convert_to_npy.py:92-103,   *)
(* scaled down; tables have up to TargetCount + 1 rows so that the three   *)
(* cases N > K, N = K and N < K all occur.                                 *)
(***************************************************************************)
TargetCount == 3

NumPts == 3

MaxRows == TargetCount + 1

\* column counts of the input tables tried: the two schemas and four others
ColCounts == {1, 5, 6, 7, 11, 12}

(***************************************************************************)
(* Exact numbers                                                           *)
(***************************************************************************)
Num(v) == [n |-> v, d |-> 1, r |-> 1]

Zero == Num(0)

IsFinite(x) == x.d # 0

\* x / y for y rational (y.r = 1) or x rational; y = 0 gives nan or inf
NumDiv(x, y) ==
    IF y.n = 0
    THEN [n |-> IF x.n = 0 THEN 0 ELSE IF x.n > 0 THEN 1 ELSE -1, d |-> 0, r |-> 1]
    ELSE [n |-> x.n * y.d, d |-> x.d * y.n * y.r, r |-> x.r * y.r]

\* x - y for rationals
NumSub(x, y) ==
    IF x.d = y.d THEN [n |-> x.n - y.n, d |-> x.d, r |-> 1]
    ELSE [n |-> x.n * y.d - y.n * x.d, d |-> x.d * y.d, r |-> 1]

RECURSIVE SumN(_, _)
\* sum of f[1..k] for a sequence of integers
SumN(f, k) == IF k = 0 THEN 0 ELSE f[k] + SumN(f, k - 1)

\* x <= y for non-negative finite numbers
NumLeq(x, y) == x.n * x.n * x.r * y.d * y.d <= y.n * y.n * y.r * x.d * x.d

(***************************************************************************)
(* Input tables.  A row is one of NumPts candidate rows; its spatial       *)
(* columns differ from each other and from row to row, and every further   *)
(* column carries a value that names its column (a byte, 0..255).  The     *)
(* first row of a table is candidate 1 and every further row is a          *)
(* candidate used above it or the next one.                                *)
(***************************************************************************)
Coord(p) == <<p, (p * p) % 3, p % 2>>

Cell(p, j) == IF j <= 3 THEN Coord(p)[j] ELSE 10 * j + p

InputRow(p, c) == [j \in 1..c |-> Cell(p, j)]

SeqsUpTo(S, k) == UNION {[1..m -> S] : m \in 1..k}

RowChoices ==
    {ps \in SeqsUpTo(1..NumPts, MaxRows) :
        /\ ps[1] = 1
        /\ \A i \in 2..Len(ps) : \E j \in 1..(i - 1) : ps[i] <= ps[j] + 1}

InputTables == {[i \in 1..Len(ps) |-> InputRow(ps[i], c)] :
                    ps \in RowChoices, c \in ColCounts}

VARIABLES
    input_exists,       \* os.path.exists(input_file)
    input_table,        \* the text table in input_file (never written)
    input_stem,         \* input_file.stem, as a sequence of characters
    add_color_padding,  \* argument of convert_bridge_data
    caller,             \* "cli" (convert_to_npy.py:130) or "pipeline" (run_simulations.py:184)
    data,               \* the array np.loadtxt returned
    point_cloud,        \* local point_cloud of convert_bridge_data
    indices,            \* the indices np.random.choice drew, <<>> when none
    stdout,             \* what convert_bridge_data printed, as tags
    npy_files,          \* the .npy artifacts in output_dir
    cpc,                \* position in convert_bridge_data
    \* pointcloud_complete_pipeline
    num_bridges,        \* argument of pointcloud_complete_pipeline
    open_files,         \* the files the pipeline has open between two steps
    bridges,            \* bridge ids of bridge_summary.json[:num_bridges]
    run_simulation,     \* arguments of pointcloud_complete_pipeline
    run_segmentation,
    convert_to_npy,
    scan_legs,          \* per bridge, what helios left in scan_legs/TLS_<id>
    bi,                 \* number of the bridge in process, 0 before the first
    ppc,                \* position in pointcloud_complete_pipeline
    xyz_files,          \* local xyz_files, in os.listdir order
    leg_i,              \* how many of xyz_files have been read
    all_lines,          \* local all_lines
    component_files,    \* local component_files (component id -> lines)
    merged,             \* per bridge, the lines of <id>_complete.xyz on disk
    segmented,          \* per bridge, the groups handed to semantic_segmentation
    scanner_info,       \* local scanner_info
    scanner_json,       \* scanner_positions.json on disk
    fps,                \* farthest_point_sample: its position and locals
    gen                 \* text_captions_generation.py: call_openrouter and its globals

cvars == <<input_exists, input_table, input_stem, add_color_padding, caller, data,
           point_cloud, indices, cpc>>

pvars == <<num_bridges, open_files, bridges, run_simulation, run_segmentation, convert_to_npy, scan_legs,
           bi, ppc, xyz_files, leg_i, all_lines, component_files, merged,
           segmented, scanner_info, scanner_json>>

vars == <<cvars, stdout, npy_files, pvars, fps, gen>>

(***************************************************************************)
(* np.loadtxt(input_file, delimiter=' ') with the default ndmin=0: a table *)
(* of one row or one column comes back one-dimensional, a table without    *)
(* rows comes back empty, rows of unequal length raise ValueError.         *)
(***************************************************************************)
Ragged(t) == \E i, j \in 1..Len(t) : Len(t[i]) # Len(t[j])

loadtxt(t) ==
    IF Len(t) = 0 THEN [shape |-> <<0>>, v |-> <<>>]
    ELSE IF Len(t) = 1
    THEN [shape |-> <<Len(t[1])>>, v |-> [j \in 1..Len(t[1]) |-> Num(t[1][j])]]
    ELSE IF Len(t[1]) = 1
    THEN [shape |-> <<Len(t)>>, v |-> [i \in 1..Len(t) |-> Num(t[i][1])]]
    ELSE [shape |-> <<Len(t), Len(t[1])>>,
          v |-> [i \in 1..Len(t) |-> [j \in 1..Len(t[1]) |-> Num(t[i][j])]]]

NoArray == [shape |-> <<0>>, v |-> <<>>]

(***************************************************************************)
(* Format Resolver, convert_to_npy.py:69-82                                *)
(***************************************************************************)
\* a selection that takes gps_time (8) for classification (7)
HeliosColumnsShifted == <<0, 1, 2, 3, 8>>

\* the column selection of line 73 (0-based, as in the source)
HeliosColumns == <<0, 1, 2, 3, 7>>

\* data[:, [0, 1, 2, 3, 7]]
ExtractHelios(a) ==
    [i \in 1..Len(a) |-> [k \in 1..Len(HeliosColumns) |-> a[i][HeliosColumns[k] + 1]]]

\* point_cloud[:, 3:6] = point_cloud[:, 3:6] / 255.0
NormalizeRGB(a) ==
    [i \in 1..Len(a) |->
        [j \in 1..Len(a[i]) |->
            IF j - 1 \in 3..5 THEN NumDiv(a[i][j], Num(255)) ELSE a[i][j]]]

\* the schema test of lines 70, 75, 80 on data.shape[1]
Schema(ncols) ==
    IF ncols = 11 THEN "helios" ELSE IF ncols = 6 THEN "rgb" ELSE "unsupported"

(***************************************************************************)
(* Colour padding, convert_to_npy.py:85-89                                 *)
(***************************************************************************)
\* padding that appends the zeros to the extracted channels instead of replacing them
ColorPadKeep(pcld) ==
    [i \in 1..Len(pcld) |-> pcld[i] \o <<Zero, Zero, Zero>>]

ColorPad(pcld) ==
    [i \in 1..Len(pcld) |-> [j \in 1..6 |-> IF j <= 3 THEN pcld[i][j] ELSE Zero]]

(***************************************************************************)
(* Resampling, convert_to_npy.py:91-104                                    *)
(***************************************************************************)
\* a draw that is one index short when drawing with replacement
RandomChoiceShort(n, size, replace) ==
    IF replace
    THEN [1..(size - 1) -> 0..(n - 1)]
    ELSE {f \in [1..size -> 0..(n - 1)] :
            \A i, j \in 1..size : i # j => f[i] # f[j]}

\* a draw that ignores replace=False
RandomChoiceReplace(n, size, replace) == [1..size -> 0..(n - 1)]

\* np.random.choice(n, size, replace): every sequence it can draw
RandomChoice(n, size, replace) ==
    IF replace
    THEN [1..size -> 0..(n - 1)]
    ELSE {f \in [1..size -> 0..(n - 1)] :
            \A i, j \in 1..size : i # j => f[i] # f[j]}

\* a resize that keeps the leading rows and fills up with zero rows
TakeZeroFill(pcld, idx) ==
    [i \in 1..Len(idx) |->
        IF i <= Len(pcld) THEN pcld[i] ELSE [j \in 1..Len(pcld[1]) |-> Zero]]

\* point_cloud[indices]
Take(pcld, idx) == [i \in 1..Len(idx) |-> pcld[idx[i] + 1]]

\* a branch test with >= for > in line 92
ResampleBranchGE(n) ==
    IF n >= TargetCount THEN "down" ELSE IF n < TargetCount THEN "up" ELSE "keep"

\* which branch of lines 92 / 100 a cloud of n rows takes
ResampleBranch(n) ==
    IF n > TargetCount THEN "down" ELSE IF n < TargetCount THEN "up" ELSE "keep"

(***************************************************************************)
(* pc_norm, convert_to_npy.py:34-45                                        *)
(***************************************************************************)
\* an array computed once (a function written [i \in S |-> e] is computed
\* anew at every application)
AsArray(f) == SubSeq(f, 1, Len(f))

Column(a, j) == AsArray([i \in 1..Len(a) |-> a[i][j]])

\* np.mean over a column of rationals with one denominator
Mean(col) ==
    [n |-> SumN([i \in 1..Len(col) |-> col[i].n], Len(col)),
     d |-> col[1].d * Len(col), r |-> 1]

\* np.sqrt(np.sum(row ** 2)) for a row of rationals with one denominator
RowNorm(row) ==
    LET S == SumN([j \in 1..Len(row) |-> row[j].n * row[j].n], Len(row))
    IN  IF S = 0 THEN [n |-> 0, d |-> row[1].d, r |-> 1]
        ELSE [n |-> 1, d |-> row[1].d, r |-> S]

\* np.max of a sequence of non-negative numbers
MaxNum(s) ==
    LET k == CHOOSE i \in 1..Len(s) : \A j \in 1..Len(s) : NumLeq(s[j], s[i])
    IN  s[k]

\* xyz - centroid, lines 39-40
Centered(xyz) ==
    LET centroid == AsArray([j \in 1..3 |-> Mean(Column(xyz, j))])
    IN  AsArray([i \in 1..Len(xyz) |->
                    AsArray([j \in 1..3 |-> NumSub(xyz[i][j], centroid[j])])])

\* a divisor taken with np.min for np.max
NormDivisorMin(centered) ==
    LET s == AsArray([i \in 1..Len(centered) |-> RowNorm(centered[i])])
        k == CHOOSE i \in 1..Len(s) : \A j \in 1..Len(s) : NumLeq(s[i], s[j])
    IN  s[k]

\* m = np.max(np.sqrt(np.sum(xyz ** 2, axis=1))), line 41
NormDivisor(centered) ==
    MaxNum(AsArray([i \in 1..Len(centered) |-> RowNorm(centered[i])]))

\* a concatenation that puts the other channels in front of x, y, z
pc_normFeaturesFirst(pc) ==
    LET xyz      == AsArray([i \in 1..Len(pc) |-> SubSeq(pc[i], 1, 3)])
        other    == [i \in 1..Len(pc) |-> SubSeq(pc[i], 4, Len(pc[i]))]
        centered == Centered(xyz)
        m        == NormDivisor(centered)
        scaled   == [i \in 1..Len(centered) |-> [j \in 1..3 |-> NumDiv(centered[i][j], m)]]
    IN  [i \in 1..Len(pc) |-> other[i] \o scaled[i]]

pc_norm(pc) ==
    LET xyz      == AsArray([i \in 1..Len(pc) |-> SubSeq(pc[i], 1, 3)])
        other    == [i \in 1..Len(pc) |-> SubSeq(pc[i], 4, Len(pc[i]))]
        centered == Centered(xyz)
        m        == NormDivisor(centered)
        scaled   == [i \in 1..Len(centered) |-> [j \in 1..3 |-> NumDiv(centered[i][j], m)]]
    IN  [i \in 1..Len(pc) |-> scaled[i] \o other[i]]

(***************************************************************************)
(* Output name, convert_to_npy.py:110-114.  A text is the sequence of its  *)
(* characters.                                                             *)
(***************************************************************************)
\* the literal bridge_ of the pattern and of the output name, lines 111-112
BridgeText == <<"b", "r", "i", "d", "g", "e", "_">>

\* the _complete of run_simulations.py:152
CompleteSuffix == <<"_", "c", "o", "m", "p", "l", "e", "t", "e">>

\* the stem of the default input file, convert_to_npy.py:128
DefaultStem == <<"T", "L", "S", "_", "5">> \o CompleteSuffix

NpyExt == <<".", "n", "p", "y">>

\* the count in the output name, 8192 in the source
KText == <<ToString(TargetCount)>>

\* what \d matches
Digits == {"0", "1", "2", "3", "4", "5", "6", "7", "8", "9"}

\* re.IGNORECASE on the letters of the pattern
FoldCase(c) ==
    CASE c = "B" -> "b" [] c = "R" -> "r" [] c = "I" -> "i"
      [] c = "D" -> "d" [] c = "G" -> "g" [] c = "E" -> "e" [] OTHER -> c

\* a match that tells upper case from lower case
MatchAtExactCase(stem, i) ==
    /\ i + Len(BridgeText) <= Len(stem)
    /\ \A k \in 1..Len(BridgeText) : stem[i + k - 1] = BridgeText[k]
    /\ stem[i + Len(BridgeText)] \in Digits

\* bridge_(\d+) matches at position i
MatchAt(stem, i) ==
    /\ i + Len(BridgeText) <= Len(stem)
    /\ \A k \in 1..Len(BridgeText) : FoldCase(stem[i + k - 1]) = BridgeText[k]
    /\ stem[i + Len(BridgeText)] \in Digits

RECURSIVE DigitRun(_, _)
\* the digits \d+ takes from position j on
DigitRun(stem, j) ==
    IF j > Len(stem) THEN <<>>
    ELSE IF stem[j] \notin Digits THEN <<>>
    ELSE <<stem[j]>> \o DigitRun(stem, j + 1)

RECURSIVE SearchFrom(_, _)
\* the leftmost match at position i or later
SearchFrom(stem, i) ==
    IF i > Len(stem) THEN [found |-> FALSE, group1 |-> <<>>]
    ELSE IF MatchAt(stem, i)
    THEN [found |-> TRUE, group1 |-> DigitRun(stem, i + Len(BridgeText))]
    ELSE SearchFrom(stem, i + 1)

\* re.search(r"bridge_(\d+)", input_file.stem, re.IGNORECASE), line 111
re_search(stem) == SearchFrom(stem, 1)

\* line 112
OutputName(stem) ==
    LET match == re_search(stem)
    IN  IF match.found
        THEN BridgeText \o match.group1 \o <<"_">> \o KText \o NpyExt
        ELSE stem \o <<"_">> \o KText \o NpyExt

\* np.save(os.path.join(output_dir, output_name), ...): a file of this name
\* in the directory is replaced
NpSave(dir, name, pcld) ==
    {f \in dir : f.name # name}
        \cup {[name |-> name, shape |-> <<Len(pcld), Len(pcld[1])>>,
               dtype |-> "float32", v |-> pcld]}

(***************************************************************************)
(* convert_bridge_data, convert_to_npy.py:48-118, one action per step      *)
(***************************************************************************)
\* text_captions_generation.py not imported
GenIdle ==
    [pc |-> "idle", key |-> FALSE, calls |-> 0, tried |-> 0, requests |-> <<>>,
     last_err |-> "None", result |-> "", raised |-> "",
     total_cost |-> 0, total_input_tokens |-> 0, total_output_tokens |-> 0]

\* farthest_point_sample not called
FpsIdle ==
    [pc |-> "idle", point |-> <<>>, npoint |-> 0, centroids |-> <<>>,
     distance |-> <<>>, farthest |-> 0, i |-> 0, result |-> <<>>]

\* num_bridges=None
NoLimit == [given |-> FALSE, n |-> 0]

\* scanner_positions.json before line 197 wrote it
NoJson == [written |-> FALSE, entries |-> <<>>]

\* convert_bridge_data called on its own (convert_to_npy.py:130): no pipeline
PipelineIdle ==
    /\ bridges = <<>>
    /\ run_simulation = FALSE
    /\ run_segmentation = FALSE
    /\ convert_to_npy = FALSE
    /\ scan_legs = <<>>
    /\ bi = 0
    /\ ppc = "idle"
    /\ xyz_files = <<>>
    /\ leg_i = 0
    /\ all_lines = <<>>
    /\ component_files = <<>>
    /\ merged = <<>>
    /\ segmented = <<>>
    /\ scanner_info = <<>>
    /\ scanner_json = NoJson
    /\ num_bridges = NoLimit
    /\ open_files = {}

Init ==
    /\ input_exists \in BOOLEAN
    /\ input_table \in (IF input_exists THEN InputTables ELSE {<<>>})
    /\ input_stem = DefaultStem
    /\ caller \in {"cli", "pipeline"}
    /\ add_color_padding \in (IF caller = "pipeline" THEN {TRUE} ELSE BOOLEAN)
    /\ data = NoArray
    /\ point_cloud = <<>>
    /\ indices = <<>>
    /\ stdout = <<>>
    /\ npy_files = {}
    /\ cpc = "check"
    /\ PipelineIdle
    /\ fps = FpsIdle
    /\ gen = GenIdle

\* lines 60-62
CheckInput ==
    /\ cpc = "check"
    /\ IF input_exists
       THEN cpc' = "load" /\ UNCHANGED stdout
       ELSE cpc' = "returned" /\ stdout' = Append(stdout, "not_found")
    /\ UNCHANGED <<pvars, fps, gen>>
    /\ UNCHANGED <<input_exists, input_table, input_stem, add_color_padding, caller, data,
                   point_cloud, indices, npy_files>>

\* lines 66-67: data[0][:5] raises IndexError on a one-dimensional array
LoadTable ==
    /\ cpc = "load"
    /\ IF Ragged(input_table)
       THEN cpc' = "raised" /\ UNCHANGED data
       ELSE /\ data' = loadtxt(input_table)
            /\ cpc' = IF Len(data'.shape) = 2 THEN "resolve" ELSE "raised"
    /\ UNCHANGED <<pvars, fps, gen>>
    /\ UNCHANGED <<input_exists, input_table, input_stem, add_color_padding, caller,
                   point_cloud, indices, stdout, npy_files>>

\* lines 70-82; in the 6-column case point_cloud is data itself, divided in place
ResolveFormat ==
    /\ cpc = "resolve"
    /\ LET schema == Schema(data.shape[2])
       IN  CASE schema = "helios" ->
                  /\ point_cloud' = ExtractHelios(data.v)
                  /\ stdout' = Append(stdout, "helios_format")
                  /\ cpc' = "pad"
                  /\ UNCHANGED data
             [] schema = "rgb" ->
                  /\ point_cloud' = NormalizeRGB(data.v)
                  /\ data' = [data EXCEPT !.v = NormalizeRGB(data.v)]
                  /\ stdout' = Append(stdout, "rgb_format")
                  /\ cpc' = "pad"
             [] OTHER ->
                  /\ stdout' = Append(stdout, "unsupported_format")
                  /\ cpc' = "returned"
                  /\ UNCHANGED <<data, point_cloud>>
    /\ UNCHANGED <<pvars, fps, gen>>
    /\ UNCHANGED <<input_exists, input_table, input_stem, add_color_padding, caller,
                   indices, npy_files>>

\* lines 85-89
PadColor ==
    /\ cpc = "pad"
    /\ point_cloud' = IF add_color_padding THEN ColorPad(point_cloud) ELSE point_cloud
    /\ cpc' = "resample"
    /\ UNCHANGED <<pvars, fps, gen>>
    /\ UNCHANGED <<input_exists, input_table, input_stem, add_color_padding, caller, data,
                   indices, stdout, npy_files>>

\* lines 92-99
Downsample ==
    /\ cpc = "resample"
    /\ ResampleBranch(Len(point_cloud)) = "down"
    /\ \E idx \in RandomChoice(Len(point_cloud), TargetCount, FALSE) :
          /\ indices' = idx
          /\ point_cloud' = Take(point_cloud, idx)
    /\ cpc' = "norm"
    /\ UNCHANGED <<pvars, fps, gen>>
    /\ UNCHANGED <<input_exists, input_table, input_stem, add_color_padding, caller, data,
                   stdout, npy_files>>

\* lines 100-104
Upsample ==
    /\ cpc = "resample"
    /\ ResampleBranch(Len(point_cloud)) = "up"
    /\ \E idx \in RandomChoice(Len(point_cloud), TargetCount, TRUE) :
          /\ indices' = idx
          /\ point_cloud' = Take(point_cloud, idx)
    /\ cpc' = "norm"
    /\ UNCHANGED <<pvars, fps, gen>>
    /\ UNCHANGED <<input_exists, input_table, input_stem, add_color_padding, caller, data,
                   stdout, npy_files>>

\* neither branch of lines 92-104
KeepCount ==
    /\ cpc = "resample"
    /\ ResampleBranch(Len(point_cloud)) = "keep"
    /\ cpc' = "norm"
    /\ UNCHANGED <<pvars, fps, gen>>
    /\ UNCHANGED <<input_exists, input_table, input_stem, add_color_padding, caller, data,
                   point_cloud, indices, stdout, npy_files>>

\* line 108: numpy divides by zero without raising
Normalize ==
    /\ cpc = "norm"
    /\ point_cloud' = pc_norm(point_cloud)
    /\ cpc' = "save"
    /\ UNCHANGED <<pvars, fps, gen>>
    /\ UNCHANGED <<input_exists, input_table, input_stem, add_color_padding, caller, data,
                   indices, stdout, npy_files>>

\* lines 110-118
SaveNpy ==
    /\ cpc = "save"
    /\ npy_files' = NpSave(npy_files, OutputName(input_stem), point_cloud)
    /\ stdout' = Append(stdout, "saved")
    /\ cpc' = "returned"
    /\ UNCHANGED <<pvars, fps, gen>>
    /\ UNCHANGED <<input_exists, input_table, input_stem, add_color_padding, caller, data,
                   point_cloud, indices>>

Next ==
    \/ CheckInput
    \/ LoadTable
    \/ ResolveFormat
    \/ PadColor
    \/ Downsample
    \/ Upsample
    \/ KeepCount
    \/ Normalize
    \/ SaveNpy

Spec == Init /\ [][Next]_vars

(***************************************************************************)
(* convert_bridge_data called on input files of different names: a stem    *)
(* with the pattern, without it, with the pattern in upper case, with the  *)
(* pattern after a near miss, with the pattern twice, with bridge_ and no  *)
(* digit.  One table of each row count from 2 to MaxRows, of 6 and of 11   *)
(* columns.                                                                *)
(***************************************************************************)
Stems ==
    {BridgeText \o <<"5">> \o CompleteSuffix,
     DefaultStem,
     <<"B", "r", "i", "d", "g", "e", "_", "1", "2">>,
     BridgeText \o <<"x", "_", "B", "R", "I", "D", "G", "E", "_", "7">>,
     BridgeText \o <<"3", "_">> \o BridgeText \o <<"4">>,
     BridgeText}

NameTables ==
    {[i \in 1..m |-> InputRow(((i - 1) % NumPts) + 1, c)] :
        m \in 2..MaxRows, c \in {6, 11}}

InitNames ==
    /\ input_exists \in BOOLEAN
    /\ input_table \in (IF input_exists THEN NameTables ELSE {<<>>})
    /\ input_stem \in Stems
    /\ caller = "cli"
    /\ add_color_padding \in BOOLEAN
    /\ data = NoArray
    /\ point_cloud = <<>>
    /\ indices = <<>>
    /\ stdout = <<>>
    /\ npy_files = {}
    /\ cpc = "check"
    /\ PipelineIdle
    /\ fps = FpsIdle
    /\ gen = GenIdle

SpecNames == InitNames /\ [][Next]_vars

(***************************************************************************)
(* Leg files.  A line of a leg file is its whitespace-separated fields     *)
(* (numbers) and whether the text of the 9th field is an integer literal;  *)
(* a blank or whitespace-only line has no fields.  A leg file name is      *)
(* leg<leg>.<ext>, so the lexical order of the .xyz names is the order of  *)
(* their leg numbers.                                                      *)
(***************************************************************************)
MaxLegs == 2

BlankLine == [cells |-> <<>>, f9int |-> TRUE]

\* an 11-field row of point p; its 9th field is 90 + p
RowLine(p) == [cells |-> InputRow(p, 11), f9int |-> TRUE]

\* a row cut off after 8 fields
ShortLine(p) == [cells |-> InputRow(p, 8), f9int |-> TRUE]

\* a row whose 9th field reads like 91.0
FloatKeyLine(p) == [cells |-> InputRow(p, 11), f9int |-> FALSE]

\* an 11-field row of point p that carries the component of point q
TaggedLine(p, q) ==
    [cells |-> [InputRow(p, 11) EXCEPT ![9] = 90 + q], f9int |-> TRUE]

\* the leg files tried: rows with and without blank lines, rows of one
\* component and of two, no row at all, a short row after a good one, a
\* non-integer 9th field
LegContents ==
    {<<RowLine(1)>>, <<TaggedLine(2, 1), BlankLine>>,
     <<BlankLine, RowLine(1), RowLine(2)>>, <<BlankLine>>,
     <<RowLine(1), ShortLine(2)>>, <<FloatKeyLine(3)>>}

LegNames == {[leg |-> k, ext |-> "xyz"] : k \in 0..(MaxLegs - 1)}

OtherName == [leg |-> 0, ext |-> "txt"]

\* the latest timestamped folder: file name -> lines
ScanFolders ==
    UNION {{f @@ o : f \in [S -> LegContents],
                     o \in {<<>>, OtherName :> <<RowLine(3)>>}} :
              S \in SUBSET LegNames}

\* scan_legs/TLS_<id> after the simulation: absent, without a timestamped
\* folder, or with the latest folder's files
ScanScenarios ==
    {[exists |-> FALSE, has_folder |-> FALSE, files |-> <<>>],
     [exists |-> TRUE, has_folder |-> FALSE, files |-> <<>>]}
        \cup {[exists |-> TRUE, has_folder |-> TRUE, files |-> f] : f \in ScanFolders}

\* every order os.listdir can return the names in
Listings(names) ==
    {f \in [1..Cardinality(names) -> names] :
        \A i, j \in 1..Cardinality(names) : i # j => f[i] # f[j]}

RECURSIVE SelectSeq2(_, _)
\* [x for x in s if keep(x)] with keep = fname.endswith(".xyz"), lines 123-127
SelectSeq2(s, k) ==
    IF k = 0 THEN <<>>
    ELSE IF s[k].ext = "xyz" THEN Append(SelectSeq2(s, k - 1), s[k])
    ELSE SelectSeq2(s, k - 1)

\* a parse that files a row without a readable 9th field under component 0
ParseComponentLenient(line) ==
    IF Len(line.cells) < 9 \/ ~line.f9int THEN [ok |-> TRUE, id |-> 0, err |-> ""]
    ELSE [ok |-> TRUE, id |-> line.cells[9], err |-> ""]

\* int(parts[8]) of line 146
ParseComponent(line) ==
    IF Len(line.cells) < 9 THEN [ok |-> FALSE, id |-> 0, err |-> "IndexError"]
    ELSE IF ~line.f9int THEN [ok |-> FALSE, id |-> 0, err |-> "ValueError"]
    ELSE [ok |-> TRUE, id |-> line.cells[9], err |-> ""]

\* a group assigned the new line where line 147 appends it
AddToComponentAssign(cf, id, line) ==
    IF id \in DOMAIN cf THEN [cf EXCEPT ![id] = <<line>>]
    ELSE cf @@ (id :> <<line>>)

\* component_files[component_id].append(line) on a defaultdict(list)
AddToComponent(cf, id, line) ==
    IF id \in DOMAIN cf THEN [cf EXCEPT ![id] = Append(@, line)]
    ELSE cf @@ (id :> <<line>>)

RECURSIVE ReadLinesNewestFirst(_, _, _)
\* a loop that puts each line in front of all_lines where line 140 appends it
ReadLinesNewestFirst(lines, k, acc) ==
    IF k = 0 THEN acc
    ELSE LET before == ReadLinesNewestFirst(lines, k - 1, acc)
             line   == lines[k]
             parsed == ParseComponent(line)
         IN  IF before.err # "" THEN before
             ELSE IF line.cells = <<>> THEN before
             ELSE IF ~parsed.ok
                  THEN [before EXCEPT !.all_lines = <<line>> \o @, !.err = parsed.err]
             ELSE [all_lines |-> <<line>> \o before.all_lines,
                   component_files |-> AddToComponent(before.component_files, parsed.id, line),
                   err |-> ""]

RECURSIVE ReadLines(_, _, _)
\* the loop of lines 134-147 over the first k lines of one leg file, from
\* the accumulators acc = [all_lines, component_files, err]
ReadLines(lines, k, acc) ==
    IF k = 0 THEN acc
    ELSE LET before == ReadLines(lines, k - 1, acc)
             line   == lines[k]
             parsed == ParseComponent(line)
         IN  IF before.err # "" THEN before
             ELSE IF line.cells = <<>> THEN before
             ELSE IF ~parsed.ok
                  THEN [before EXCEPT !.all_lines = Append(@, line), !.err = parsed.err]
             ELSE [all_lines |-> Append(before.all_lines, line),
                   component_files |-> AddToComponent(before.component_files, parsed.id, line),
                   err |-> ""]

\* the table np.loadtxt reads back from '\n'.join(all_lines) + '\n'
MergedTable(lines) == [i \in 1..Len(lines) |-> lines[i].cells]

NoFile == [exists |-> FALSE, lines |-> <<>>]

(***************************************************************************)
(* pointcloud_complete_pipeline, run_simulations.py:14-199                 *)
(***************************************************************************)
ConvertIdle ==
    /\ input_exists = FALSE
    /\ input_table = <<>>
    /\ input_stem = <<>>
    /\ add_color_padding = FALSE
    /\ caller = "none"
    /\ data = NoArray
    /\ point_cloud = <<>>
    /\ indices = <<>>
    /\ cpc = "idle"

\* one scan session: the state at line 59 with one bridge selected
InitMerge ==
    /\ bridges = <<BridgeText \o <<"1">> >>
    /\ run_simulation \in BOOLEAN
    /\ run_segmentation \in BOOLEAN
    /\ convert_to_npy \in BOOLEAN
    /\ scan_legs \in [1..Len(bridges) -> ScanScenarios]
    /\ bi = 0
    /\ ppc = "loop"
    /\ xyz_files = <<>>
    /\ leg_i = 0
    /\ all_lines = <<>>
    /\ component_files = <<>>
    /\ merged = [b \in 1..Len(bridges) |-> NoFile]
    /\ segmented = [b \in 1..Len(bridges) |-> <<>>]
    /\ scanner_info = <<>>
    /\ scanner_json = NoJson
    /\ num_bridges = NoLimit
    /\ open_files = {}
    /\ fps = FpsIdle
    /\ gen = GenIdle
    /\ stdout = <<>>
    /\ npy_files = {}
    /\ ConvertIdle

\* a loop that takes up the next bridge as soon as the merged file is written
NextBridgeEarly ==
    /\ ppc \in {"loop", "segment"}
    /\ bi < Len(bridges)
    /\ bi' = bi + 1
    /\ scanner_info' = Append(scanner_info, bridges[bi + 1])
    /\ ppc' = IF run_simulation THEN "simulate" ELSE "loop"
    /\ UNCHANGED <<gen, fps, num_bridges, open_files, bridges, run_simulation, run_segmentation, convert_to_npy,
                   scan_legs, xyz_files, leg_i, all_lines, component_files,
                   merged, segmented, scanner_json, stdout, npy_files, cvars>>

\* lines 59-92: the next bridge; its survey and scene files, its scanner entry
NextBridge ==
    /\ ppc = "loop"
    /\ bi < Len(bridges)
    /\ bi' = bi + 1
    /\ scanner_info' = Append(scanner_info, bridges[bi + 1])
    /\ ppc' = IF run_simulation THEN "simulate" ELSE "loop"
    /\ UNCHANGED <<gen, fps, num_bridges, open_files, bridges, run_simulation, run_segmentation, convert_to_npy,
                   scan_legs, xyz_files, leg_i, all_lines, component_files,
                   merged, segmented, scanner_json, stdout, npy_files, cvars>>

\* lines 98-107: os.system(helios ...) leaves scan_legs[bi] behind
Simulate ==
    /\ ppc = "simulate"
    /\ ppc' = "find_scan"
    /\ UNCHANGED <<gen, fps, num_bridges, open_files, bridges, run_simulation, run_segmentation, convert_to_npy,
                   scan_legs, bi, xyz_files, leg_i, all_lines, component_files,
                   merged, segmented, scanner_info, scanner_json, stdout,
                   npy_files, cvars>>

\* lines 113-120, 186-188: timestamp_folders[0] raises IndexError on no folder
FindScan ==
    /\ ppc = "find_scan"
    /\ IF ~scan_legs[bi].exists
       THEN ppc' = "complete" /\ stdout' = Append(stdout, "output_dir_not_found")
       ELSE IF ~scan_legs[bi].has_folder
       THEN ppc' = "raised" /\ UNCHANGED stdout
       ELSE ppc' = "list_legs" /\ UNCHANGED stdout
    /\ UNCHANGED <<gen, fps, num_bridges, open_files, bridges, run_simulation, run_segmentation, convert_to_npy,
                   scan_legs, bi, xyz_files, leg_i, all_lines, component_files,
                   merged, segmented, scanner_info, scanner_json, npy_files, cvars>>

\* lines 123-130: os.listdir returns the names in an arbitrary order
ListLegs ==
    /\ ppc = "list_legs"
    /\ \E listing \in Listings(DOMAIN scan_legs[bi].files) :
          xyz_files' = SelectSeq2(listing, Len(listing))
    /\ leg_i' = 0
    /\ all_lines' = <<>>
    /\ component_files' = <<>>
    /\ ppc' = "read_legs"
    /\ UNCHANGED <<gen, fps, num_bridges, open_files, bridges, run_simulation, run_segmentation, convert_to_npy,
                   scan_legs, bi, merged, segmented, scanner_info, scanner_json,
                   stdout, npy_files, cvars>>

\* lines 132-147 for one leg file; a malformed row raises out of the pipeline
ReadLeg ==
    /\ ppc = "read_legs"
    /\ leg_i < Len(xyz_files)
    /\ LET lines == scan_legs[bi].files[xyz_files[leg_i + 1]]
           read  == ReadLines(lines, Len(lines),
                              [all_lines |-> all_lines,
                               component_files |-> component_files, err |-> ""])
       IN  /\ all_lines' = read.all_lines
           /\ component_files' = read.component_files
           /\ ppc' = IF read.err = "" THEN "read_legs" ELSE "raised"
    /\ leg_i' = leg_i + 1
    /\ UNCHANGED <<gen, fps, num_bridges, open_files, bridges, run_simulation, run_segmentation, convert_to_npy,
                   scan_legs, bi, xyz_files, merged, segmented, scanner_info,
                   scanner_json, stdout, npy_files, cvars>>

\* lines 149-155
WriteMerged ==
    /\ ppc = "read_legs"
    /\ leg_i = Len(xyz_files)
    /\ merged' = [merged EXCEPT ![bi] = [exists |-> TRUE, lines |-> all_lines]]
    /\ stdout' = Append(stdout, "merged")
    /\ ppc' = "segment"
    /\ UNCHANGED <<gen, fps, num_bridges, open_files, bridges, run_simulation, run_segmentation, convert_to_npy,
                   scan_legs, bi, xyz_files, leg_i, all_lines, component_files,
                   segmented, scanner_info, scanner_json, npy_files, cvars>>

\* lines 159-171
Segment ==
    /\ ppc = "segment"
    /\ IF run_segmentation
       THEN /\ segmented' = [segmented EXCEPT ![bi] = component_files]
            /\ stdout' = Append(stdout, "segmented")
       ELSE /\ stdout' = Append(stdout, "no_segmentation")
            /\ UNCHANGED segmented
    /\ ppc' = "convert"
    /\ UNCHANGED <<gen, fps, num_bridges, open_files, bridges, run_simulation, run_segmentation, convert_to_npy,
                   scan_legs, bi, xyz_files, leg_i, all_lines, component_files,
                   merged, scanner_info, scanner_json, npy_files, cvars>>

\* lines 176-184: convert_bridge_data(merged_output_file, ..., add_color_padding=True)
CallConvert ==
    /\ ppc = "convert"
    /\ IF convert_to_npy
       THEN /\ ppc' = "converting"
            /\ input_exists' = merged[bi].exists
            /\ input_table' = MergedTable(merged[bi].lines)
            /\ input_stem' = bridges[bi] \o CompleteSuffix
            /\ add_color_padding' = TRUE
            /\ caller' = "pipeline"
            /\ data' = NoArray
            /\ point_cloud' = <<>>
            /\ indices' = <<>>
            /\ cpc' = "check"
       ELSE /\ ppc' = "complete"
            /\ UNCHANGED cvars
    /\ UNCHANGED <<gen, fps, num_bridges, open_files, bridges, run_simulation, run_segmentation, convert_to_npy,
                   scan_legs, bi, xyz_files, leg_i, all_lines, component_files,
                   merged, segmented, scanner_info, scanner_json, stdout, npy_files>>

\* convert_bridge_data returns to line 184, or its exception leaves the pipeline
ConvertReturn ==
    /\ ppc = "converting"
    /\ cpc \in {"returned", "raised"}
    /\ ppc' = IF cpc = "returned" THEN "complete" ELSE "raised"
    /\ cpc' = "idle"
    /\ UNCHANGED <<input_exists, input_table, input_stem, add_color_padding, caller, data,
                   point_cloud, indices>>
    /\ UNCHANGED <<gen, fps, num_bridges, open_files, bridges, run_simulation, run_segmentation, convert_to_npy,
                   scan_legs, bi, xyz_files, leg_i, all_lines, component_files,
                   merged, segmented, scanner_info, scanner_json, stdout, npy_files>>

\* line 190
CompleteBridge ==
    /\ ppc = "complete"
    /\ stdout' = Append(stdout, "completed")
    /\ ppc' = "loop"
    /\ UNCHANGED <<gen, fps, num_bridges, open_files, bridges, run_simulation, run_segmentation, convert_to_npy,
                   scan_legs, bi, xyz_files, leg_i, all_lines, component_files,
                   merged, segmented, scanner_info, scanner_json, npy_files, cvars>>

\* an export that also runs when an exception has left the loop
ExportScannerInfoAlways ==
    /\ \/ ppc = "loop" /\ bi = Len(bridges)
       \/ ppc = "raised" /\ ~scanner_json.written
    /\ scanner_json' = [written |-> TRUE, entries |-> scanner_info]
    /\ ppc' = IF ppc = "loop" THEN "done" ELSE ppc
    /\ UNCHANGED <<gen, fps, num_bridges, open_files, bridges, run_simulation, run_segmentation, convert_to_npy,
                   scan_legs, bi, xyz_files, leg_i, all_lines, component_files,
                   merged, segmented, scanner_info, stdout, npy_files, cvars>>

\* lines 193-199
ExportScannerInfo ==
    /\ ppc = "loop"
    /\ bi = Len(bridges)
    /\ scanner_json' = [written |-> TRUE, entries |-> scanner_info]
    /\ ppc' = "done"
    /\ UNCHANGED <<gen, fps, num_bridges, open_files, bridges, run_simulation, run_segmentation, convert_to_npy,
                   scan_legs, bi, xyz_files, leg_i, all_lines, component_files,
                   merged, segmented, scanner_info, stdout, npy_files, cvars>>

NextPipeline ==
    \/ NextBridge
    \/ Simulate
    \/ FindScan
    \/ ListLegs
    \/ ReadLeg
    \/ WriteMerged
    \/ Segment
    \/ CallConvert
    \/ ConvertReturn
    \/ CompleteBridge
    \/ ExportScannerInfo
    \/ Next

SpecMerge == InitMerge /\ [][NextPipeline]_vars

(***************************************************************************)
(* Two scan sessions in one run of pointcloud_complete_pipeline.  Each     *)
(* session has one leg file; a session is absent, without a timestamped    *)
(* folder, malformed, of one row, of two coincident points, of two         *)
(* distinct points, of TargetCount rows or of TargetCount + 1 rows.  The   *)
(* two sessions with the most rows are not tried together.                 *)
(***************************************************************************)
\* bridge_summary.json: two bridges with different ids
BridgeLists ==
    {<<BridgeText \o <<"1">>, BridgeText \o <<"2">> >>,
     <<BridgeText \o <<"1">>, BridgeText \o <<"1", "b">> >>,
     <<BridgeText \o <<"1", "b">>, BridgeText \o <<"1">> >>}

\* a leg file of n rows
RowsFile(n) == [i \in 1..n |-> RowLine(((i - 1) % NumPts) + 1)]

AbsentDir == [exists |-> FALSE, has_folder |-> FALSE, files |-> <<>>]

EmptyDir == [exists |-> TRUE, has_folder |-> FALSE, files |-> <<>>]

OneLeg(lines) ==
    [exists |-> TRUE, has_folder |-> TRUE,
     files |-> ([leg |-> 0, ext |-> "xyz"] :> lines)]

LightSessions ==
    {AbsentDir, EmptyDir,
     OneLeg(<<RowLine(1), ShortLine(2)>>),
     OneLeg(<<RowLine(1)>>),
     OneLeg(<<RowLine(1), RowLine(1)>>),
     OneLeg(<<BlankLine, RowLine(2), RowLine(3)>>)}

HeavySessions == {OneLeg(RowsFile(TargetCount)), OneLeg(RowsFile(TargetCount + 1))}

SessionPlans ==
    {<<a, b>> : a \in LightSessions, b \in LightSessions}
        \cup {<<a, b>> : a \in HeavySessions, b \in LightSessions}
        \cup {<<a, b>> : a \in LightSessions, b \in HeavySessions}

\* the state at line 59 with two bridges selected
InitSessions ==
    /\ bridges \in BridgeLists
    /\ run_simulation \in BOOLEAN
    /\ run_segmentation \in BOOLEAN
    /\ convert_to_npy \in BOOLEAN
    /\ scan_legs \in SessionPlans
    /\ bi = 0
    /\ ppc = "loop"
    /\ xyz_files = <<>>
    /\ leg_i = 0
    /\ all_lines = <<>>
    /\ component_files = <<>>
    /\ merged = [b \in 1..Len(bridges) |-> NoFile]
    /\ segmented = [b \in 1..Len(bridges) |-> <<>>]
    /\ scanner_info = <<>>
    /\ scanner_json = NoJson
    /\ num_bridges = NoLimit
    /\ open_files = {}
    /\ fps = FpsIdle
    /\ gen = GenIdle
    /\ stdout = <<>>
    /\ npy_files = {}
    /\ ConvertIdle

SpecSessions == InitSessions /\ [][NextPipeline]_vars

(***************************************************************************)
(* The pipeline from line 48 on, bridge_summary.json read into bridges,    *)
(* with and without num_bridges.  Files opened in a with statement are     *)
(* closed when the step that opened them ends, by return or by exception.  *)
(* The file line 51 opens is closed by no statement: it is closed when the *)
(* interpreter finalizes the file object, at once or at any later time.    *)
(***************************************************************************)
SummaryFile == "bridge_summary.json"

\* bridges[:n]
Slice(s, n) == SubSeq(s, 1, IF n < Len(s) THEN n ELSE Len(s))

\* lines 49-53
LimitBridges ==
    /\ ppc = "limit"
    /\ IF num_bridges.given
       THEN /\ bridges' = Slice(bridges, num_bridges.n)
            /\ scan_legs' = Slice(scan_legs, num_bridges.n)
            /\ merged' = Slice(merged, num_bridges.n)
            /\ segmented' = Slice(segmented, num_bridges.n)
            /\ open_files' \in {open_files, open_files \cup {SummaryFile}}
       ELSE UNCHANGED <<bridges, scan_legs, merged, segmented, open_files>>
    /\ ppc' = "loop"
    /\ UNCHANGED <<gen, fps, num_bridges, run_simulation, run_segmentation, convert_to_npy,
                   bi, xyz_files, leg_i, all_lines, component_files,
                   scanner_info, scanner_json, stdout, npy_files, cvars>>

\* the interpreter finalizes the file object of line 51
FinalizeFile ==
    /\ open_files # {}
    /\ open_files' = {}
    /\ UNCHANGED <<gen, fps, num_bridges, bridges, run_simulation, run_segmentation,
                   convert_to_npy, scan_legs, bi, ppc, xyz_files, leg_i,
                   all_lines, component_files, merged, segmented, scanner_info,
                   scanner_json, stdout, npy_files, cvars>>

\* the state at line 48 with two bridges in bridge_summary.json
InitHandles ==
    /\ bridges \in BridgeLists
    /\ num_bridges \in {NoLimit} \cup {[given |-> TRUE, n |-> k] : k \in 1..2}
    /\ run_simulation \in BOOLEAN
    /\ run_segmentation \in BOOLEAN
    /\ convert_to_npy \in BOOLEAN
    /\ scan_legs \in SessionPlans
    /\ open_files = {}
    /\ fps = FpsIdle
    /\ gen = GenIdle
    /\ bi = 0
    /\ ppc = "limit"
    /\ xyz_files = <<>>
    /\ leg_i = 0
    /\ all_lines = <<>>
    /\ component_files = <<>>
    /\ merged = [b \in 1..Len(bridges) |-> NoFile]
    /\ segmented = [b \in 1..Len(bridges) |-> <<>>]
    /\ scanner_info = <<>>
    /\ scanner_json = NoJson
    /\ stdout = <<>>
    /\ npy_files = {}
    /\ ConvertIdle

NextHandles ==
    \/ LimitBridges
    \/ FinalizeFile
    \/ NextPipeline

SpecHandles == InitHandles /\ [][NextHandles]_vars

(***************************************************************************)
(* farthest_point_sample, convert_to_npy.py:11-32, called on its own: one  *)
(* action for lines 19-23, one per turn of the loop, one for lines 31-32.  *)
(* The coordinates are integers, so that the squared distances are exact.  *)
(* An entry of distance is [set, d]: the 1e10 of line 22 until a squared   *)
(* distance has been stored in it, the squared distance d from then on;    *)
(* every squared distance of the tables tried is below 1e10.               *)
(***************************************************************************)
FpsTables ==
    {AsArray([i \in 1..Len(ps) |-> AsArray([j \in 1..6 |-> Num(Cell(ps[i], j))])]) :
        ps \in RowChoices}

\* np.ones((N,)) * 1e10, one entry
InitialDistance == [set |-> FALSE, d |-> 0]

\* np.sum((xyz - centroid) ** 2, -1)
SquaredDistances(xyz, centroid) ==
    AsArray([q \in 1..Len(xyz) |->
                SumN([j \in 1..3 |-> (xyz[q][j].n - centroid[j].n)
                                        * (xyz[q][j].n - centroid[j].n)], 3)])

\* mask = dist < distance; distance[mask] = dist[mask]
MaskedMin(dist, distance) ==
    AsArray([q \in 1..Len(distance) |->
                IF ~distance[q].set \/ dist[q] < distance[q].d
                THEN [set |-> TRUE, d |-> dist[q]]
                ELSE distance[q]])

\* x >= y for two entries of distance
DistGeq(x, y) == ~x.set \/ (y.set /\ x.d >= y.d)

\* an argmax that returns the last of several maxima
ArgMaxLast(a) ==
    (CHOOSE i \in 1..Len(a) :
        /\ \A j \in 1..Len(a) : DistGeq(a[i], a[j])
        /\ \A j \in (i + 1)..Len(a) : ~DistGeq(a[j], a[i])) - 1

\* np.argmax(distance, -1): the first of several maxima, 0-based
ArgMax(a) ==
    (CHOOSE i \in 1..Len(a) :
        /\ \A j \in 1..Len(a) : DistGeq(a[i], a[j])
        /\ \A j \in 1..(i - 1) : ~DistGeq(a[j], a[i])) - 1

InitFps ==
    /\ \E point \in FpsTables, npoint \in 1..TargetCount :
          fps = [pc |-> "start", point |-> point, npoint |-> npoint,
                 centroids |-> [k \in 1..npoint |-> 0],
                 distance |-> [q \in 1..Len(point) |-> InitialDistance],
                 farthest |-> 0, i |-> 0, result |-> <<>>]
    /\ stdout = <<>>
    /\ npy_files = {}
    /\ ConvertIdle
    /\ PipelineIdle
    /\ gen = GenIdle

\* lines 19-23: farthest = np.random.randint(0, N)
FpsStart ==
    /\ fps.pc = "start"
    /\ \E first \in 0..(Len(fps.point) - 1) :
          fps' = [fps EXCEPT !.farthest = first, !.pc = "loop"]
    /\ UNCHANGED <<cvars, stdout, npy_files, pvars, gen>>

\* lines 24-30, one turn of the loop
FpsIterate ==
    /\ fps.pc = "loop"
    /\ fps.i < fps.npoint
    /\ LET xyz      == AsArray([q \in 1..Len(fps.point) |-> SubSeq(fps.point[q], 1, 3)])
           centroid == xyz[fps.farthest + 1]
           dist     == SquaredDistances(xyz, centroid)
           distance == MaskedMin(dist, fps.distance)
       IN  fps' = [fps EXCEPT !.centroids[fps.i + 1] = fps.farthest,
                              !.distance = distance,
                              !.farthest = ArgMax(distance),
                              !.i = fps.i + 1]
    /\ UNCHANGED <<cvars, stdout, npy_files, pvars, gen>>

\* lines 31-32
FpsReturn ==
    /\ fps.pc = "loop"
    /\ fps.i = fps.npoint
    /\ fps' = [fps EXCEPT !.pc = "returned",
                          !.result = [k \in 1..fps.npoint |->
                                         fps.point[fps.centroids[k] + 1]]]
    /\ UNCHANGED <<cvars, stdout, npy_files, pvars, gen>>

NextFps ==
    \/ FpsStart
    \/ FpsIterate
    \/ FpsReturn

SpecFps == InitFps /\ [][NextFps]_vars

(***************************************************************************)
(* call_openrouter, text_captions_generation.py:156-260, called MaxCalls   *)
(* times in one process.  What requests.post brings back is the server's   *)
(* choice: an exception, or a response with a status, with or without      *)
(* choices[0].message.content, with a content, and with a usage entry that *)
(* is absent, an object with its token counts, or null.  A cost is counted *)
(* in 1e-8 dollars: tokens times the price in cents per million tokens.    *)
(***************************************************************************)
MaxCalls == 2

\* models, lines 182-186
Models == <<"anthropic/claude-3.5-sonnet", "openai/gpt-4o", "google/gemini-2.0-pro-exp">>

\* MODEL_PRICING, lines 156-160, in cents
MODEL_PRICING ==
    [m \in {Models[k] : k \in 1..Len(Models)} |->
        CASE m = "anthropic/claude-3.5-sonnet" -> [input |-> 300, output |-> 1500]
          [] m = "openai/gpt-4o" -> [input |-> 250, output |-> 1000]
          [] m = "google/gemini-2.0-pro-exp" -> [input |-> 125, output |-> 500]]

NoUsage == [present |-> FALSE, null |-> FALSE, prompt_tokens |-> 0, completion_tokens |-> 0]

NullUsage == [present |-> TRUE, null |-> TRUE, prompt_tokens |-> 0, completion_tokens |-> 0]

Usage(p, c) == [present |-> TRUE, null |-> FALSE, prompt_tokens |-> p, completion_tokens |-> c]

Response(exc, status, choices, content, usage) ==
    [exc |-> exc, status |-> status, choices |-> choices, content |-> content,
     usage |-> usage]

\* what one requests.post can bring back
Responses ==
    {Response("Timeout", 0, FALSE, "", NoUsage),
     Response("ConnectionError", 0, FALSE, "", NoUsage),
     Response("", 429, FALSE, "", NoUsage),
     Response("", 200, FALSE, "", NoUsage),
     Response("", 200, TRUE, " ", Usage(10, 0)),
     Response("", 200, TRUE, "caption", NoUsage),
     Response("", 200, TRUE, "caption", Usage(10, 20)),
     Response("", 200, TRUE, "caption", NullUsage)}

\* text and text.strip()
TextNonBlank(text) == text \notin {"", " "}

\* the body of the try statement, lines 192-248, for one model: what it
\* does with a response.  do is "return", "next" (the loop goes on) or
\* "except" (an exception reaches lines 250-258)
HandleResponse(model, r) ==
    IF r.exc # "" THEN [do |-> "except", err |-> r.exc, count |-> FALSE]
    ELSE IF r.status # 200 THEN [do |-> "next", err |-> "RuntimeError", count |-> FALSE]
    ELSE IF ~r.choices THEN [do |-> "except", err |-> "KeyError", count |-> FALSE]
    ELSE IF ~TextNonBlank(r.content) THEN [do |-> "next", err |-> "RuntimeError", count |-> FALSE]
    ELSE IF ~r.usage.present THEN [do |-> "return", err |-> "", count |-> FALSE]
    ELSE IF r.usage.null THEN [do |-> "except", err |-> "AttributeError", count |-> FALSE]
    ELSE [do |-> "return", err |-> "", count |-> TRUE]

\* call_cost, lines 231-232
CallCost(model, usage) ==
    usage.prompt_tokens * MODEL_PRICING[model].input
        + usage.completion_tokens * MODEL_PRICING[model].output

InitGen ==
    /\ \E key \in BOOLEAN : gen = [GenIdle EXCEPT !.key = key]
    /\ fps = FpsIdle
    /\ stdout = <<>>
    /\ npy_files = {}
    /\ ConvertIdle
    /\ PipelineIdle

\* lines 168-190: the key is read; without it RuntimeError is raised
CallOpenRouter ==
    /\ gen.pc \in {"idle", "returned", "raised"}
    /\ gen.calls < MaxCalls
    /\ gen' = [gen EXCEPT !.calls = gen.calls + 1,
                          !.tried = 0,
                          !.requests = <<>>,
                          !.last_err = "None",
                          !.result = "",
                          !.raised = IF gen.key THEN "" ELSE "RuntimeError",
                          !.pc = IF gen.key THEN "loop" ELSE "raised"]
    /\ UNCHANGED <<cvars, stdout, npy_files, pvars, fps>>

\* lines 191-258: one turn of the loop over the models
TryModel ==
    /\ gen.pc = "loop"
    /\ gen.tried < Len(Models)
    /\ \E r \in Responses :
          LET model == Models[gen.tried + 1]
              h     == HandleResponse(model, r)
              sent  == Append(gen.requests, [model |-> model, response |-> r])
          IN  IF h.do = "return"
              THEN gen' = [gen EXCEPT
                              !.requests = sent,
                              !.tried = gen.tried + 1,
                              !.result = r.content,
                              !.pc = "returned",
                              !.total_input_tokens =
                                  IF h.count THEN @ + r.usage.prompt_tokens ELSE @,
                              !.total_output_tokens =
                                  IF h.count THEN @ + r.usage.completion_tokens ELSE @,
                              !.total_cost =
                                  IF h.count THEN @ + CallCost(model, r.usage) ELSE @]
              ELSE gen' = [gen EXCEPT !.requests = sent,
                                      !.tried = gen.tried + 1,
                                      !.last_err = h.err]
    /\ UNCHANGED <<cvars, stdout, npy_files, pvars, fps>>

\* line 260
RaiseAllFailed ==
    /\ gen.pc = "loop"
    /\ gen.tried = Len(Models)
    /\ gen' = [gen EXCEPT !.pc = "raised", !.raised = "RuntimeError"]
    /\ UNCHANGED <<cvars, stdout, npy_files, pvars, fps>>

NextGen ==
    \/ CallOpenRouter
    \/ TryModel
    \/ RaiseAllFailed

SpecGen == InitGen /\ [][NextGen]_vars

(***************************************************************************)
(* What the claims speak about                                             *)
(***************************************************************************)
\* column count of the input table
NCols == IF input_table = <<>> THEN 0 ELSE Len(input_table[1])

\* point_cloud as it stands at line 91, before resampling
ResampleInput ==
    LET a == loadtxt(input_table).v
        extracted == IF NCols = 11 THEN ExtractHelios(a) ELSE NormalizeRGB(a)
    IN  AsArray(IF add_color_padding THEN ColorPad(extracted) ELSE extracted)

\* point_cloud as it stands at line 108, before pc_norm
NormInput ==
    LET cloud == ResampleInput
    IN  IF indices = <<>> THEN cloud
        ELSE [i \in 1..Len(indices) |-> cloud[indices[i] + 1]]

\* the resampling step has run
Resampled == cpc \in {"norm", "save"} \/ (cpc = "returned" /\ npy_files # {})

\* pc_norm has run
Normalized == cpc = "save" \/ (cpc = "returned" /\ npy_files # {})

SqDist(a, b) ==
    SumN([j \in 1..3 |-> (a[j].n - b[j].n) * (a[j].n - b[j].n)], 3)

\* minimum squared distance of row q to the rows idx[1..k] already selected
RECURSIVE MinSqDist(_, _, _, _)
MinSqDist(cloud, idx, k, q) ==
    LET here == SqDist(cloud[q], cloud[idx[k] + 1])
    IN  IF k = 1 THEN here
        ELSE LET rest == MinSqDist(cloud, idx, k - 1, q)
             IN  IF here < rest THEN here ELSE rest

\* idx is a farthest-point selection order over cloud
IsFarthestPointOrder(cloud, idx) ==
    \A k \in 2..Len(idx) : \A q \in 1..Len(cloud) :
        MinSqDist(cloud, idx, k - 1, q) <= MinSqDist(cloud, idx, k - 1, idx[k] + 1)

\* some two rows differ in x, y or z
NonCoincident(cloud) ==
    \E i, j \in 1..Len(cloud) : SubSeq(cloud[i], 1, 3) # SubSeq(cloud[j], 1, 3)

\* squared spatial norm of a row as numerator and denominator; the three
\* cells of a normalized row share d and r
SameScale(row) == \A j \in 1..3 : row[j].d = row[1].d /\ row[j].r = row[1].r

NormSqNum(row) == SumN([j \in 1..3 |-> row[j].n * row[j].n], 3) * row[1].r

NormSqDen(row) == row[1].d * row[1].d

(***************************************************************************)
(* C1: after the resampling step the point set has exactly TargetCount     *)
(* rows, whatever the number of rows before it; so has every tensor saved. *)
(***************************************************************************)
C1_ResampleCardinality ==
    /\ Resampled => Len(point_cloud) = TargetCount
    /\ \A f \in npy_files : f.shape[1] = TargetCount /\ Len(f.v) = TargetCount

C1_Witness ==
    /\ cpc = "norm"
    /\ Len(input_table) < TargetCount
    /\ Len(point_cloud) = TargetCount

C3_ResampleIdentity ==
    (cpc = "norm" /\ Len(ResampleInput) = TargetCount)
        => point_cloud = ResampleInput /\ indices = <<>>

C3_Witness ==
    /\ cpc = "norm"
    /\ Len(input_table) = TargetCount
    /\ \E i, j \in 1..Len(point_cloud) : point_cloud[i] # point_cloud[j]

(***************************************************************************)
(* C4: with fewer than TargetCount rows the output has TargetCount rows,   *)
(* each of them equal to a row of the input.                               *)
(***************************************************************************)
C4_UpsampleFromInput ==
    (cpc = "norm" /\ Len(ResampleInput) < TargetCount)
        => /\ Len(point_cloud) = TargetCount
           /\ \A i \in 1..Len(point_cloud) :
                 \E j \in 1..Len(ResampleInput) : point_cloud[i] = ResampleInput[j]

C4_Witness ==
    /\ cpc = "norm"
    /\ Len(ResampleInput) < TargetCount
    /\ \E i, j \in 1..Len(indices) : i # j /\ indices[i] = indices[j]

(***************************************************************************)
(* C5 as stated: when the column count of an existing input table is       *)
(* neither 6 nor 11, convert_bridge_data ends having reported the format   *)
(* error, with no point cloud extracted and no artifact written.           *)
(***************************************************************************)
C5_SchemaRejection ==
    (input_exists /\ NCols \notin {6, 11} /\ cpc \notin {"check", "load"})
        => /\ cpc = "returned"
           /\ stdout = <<"unsupported_format">>
           /\ point_cloud = <<>>
           /\ indices = <<>>
           /\ npy_files = {}

(***************************************************************************)
(* C6: the extracted layout depends on the column count alone.  Of 11      *)
(* columns, columns 0, 1, 2, 3, 7 are kept in this order; of 6 columns all *)
(* are kept, columns 0..2 as they are and columns 3..5 divided by 255.     *)
(***************************************************************************)
C6_ExtractedLayout ==
    cpc = "pad" =>
        /\ Len(point_cloud) = Len(input_table)
        /\ NCols \in {6, 11}
        /\ NCols = 11 =>
              \A i \in 1..Len(point_cloud) :
                 point_cloud[i] = <<Num(input_table[i][1]), Num(input_table[i][2]),
                                    Num(input_table[i][3]), Num(input_table[i][4]),
                                    Num(input_table[i][8])>>
        /\ NCols = 6 =>
              \A i \in 1..Len(point_cloud) :
                 /\ Len(point_cloud[i]) = 6
                 /\ \A j \in 1..3 : point_cloud[i][j] = Num(input_table[i][j])
                 /\ \A j \in 4..6 :
                       point_cloud[i][j] = [n |-> input_table[i][j], d |-> 255, r |-> 1]

C6_Witness ==
    /\ cpc = "pad"
    /\ NCols = 11
    /\ Len(point_cloud[1]) = 5

(***************************************************************************)
(* C7: with colour padding, the point set after the padding step has 6     *)
(* channels in every row: the source x, y, z and three zeros.  The         *)
(* pipeline always pads, so every tensor it writes has 6 channels.         *)
(***************************************************************************)
C7_ColorPadding ==
    /\ (cpc = "resample" /\ add_color_padding) =>
          \A i \in 1..Len(point_cloud) :
             /\ Len(point_cloud[i]) = 6
             /\ \A j \in 1..3 : point_cloud[i][j] = Num(input_table[i][j])
             /\ \A j \in 4..6 : point_cloud[i][j] = Zero
    /\ caller = "pipeline" => \A f \in npy_files : f.shape[2] = 6

C7_Witness ==
    /\ caller = "pipeline"
    /\ NCols = 11
    /\ \E f \in npy_files : f.shape = <<TargetCount, 6>>

(***************************************************************************)
(* C8: pc_norm of a point set with two non-coincident points gives rows    *)
(* whose spatial norm is at most 1, a row whose spatial norm is 1, and a   *)
(* zero mean on each spatial axis.                                         *)
(***************************************************************************)
C8_UnitSphere ==
    (cpc = "save" /\ NonCoincident(NormInput)) =>
        /\ \A i \in 1..Len(point_cloud) :
              /\ \A j \in 1..3 : IsFinite(point_cloud[i][j])
              /\ SameScale(point_cloud[i])
              /\ point_cloud[i][1].d = point_cloud[1][1].d
              /\ point_cloud[i][1].r = point_cloud[1][1].r
              /\ NormSqNum(point_cloud[i]) <= NormSqDen(point_cloud[i])
        /\ \E i \in 1..Len(point_cloud) :
              NormSqNum(point_cloud[i]) = NormSqDen(point_cloud[i])
        /\ \A j \in 1..3 :
              SumN([i \in 1..Len(point_cloud) |-> point_cloud[i][j].n],
                   Len(point_cloud)) = 0

C8_Witness ==
    /\ cpc = "save"
    /\ NonCoincident(NormInput)
    /\ \E i \in 1..Len(point_cloud) :
          NormSqNum(point_cloud[i]) < NormSqDen(point_cloud[i])

(***************************************************************************)
(* C9 as stated: when the divisor m of pc_norm is 0 (all points            *)
(* coincide), the conversion ends in an error: no normalized point set is  *)
(* handed on and no tensor is written from it.                             *)
(***************************************************************************)
C9_DegenerateIsFatal ==
    (Normalized /\ ~NonCoincident(NormInput))
        => cpc # "save" /\ npy_files = {}

\* the non-blank lines of a leg file
NonBlank(lines) == SelectSeq(lines, LAMBDA l : l.cells # <<>>)

RECURSIVE SortedConcat(_, _)
\* the non-blank lines of the .xyz files among leg 0 .. leg k-1, by file name
SortedConcat(files, k) ==
    IF k = 0 THEN <<>>
    ELSE LET name == [leg |-> k - 1, ext |-> "xyz"]
         IN  IF name \in DOMAIN files
             THEN SortedConcat(files, k - 1) \o NonBlank(files[name])
             ELSE SortedConcat(files, k - 1)

(***************************************************************************)
(* C10 as stated: the leg files of a session are read in lexical file name *)
(* order, and the merged file holds their rows concatenated in that order. *)
(***************************************************************************)
C10_LexicalFileOrder ==
    ppc = "segment" =>
        merged[bi].lines = SortedConcat(scan_legs[bi].files, MaxLegs)

RECURSIVE MergeListing(_, _, _)
\* lines 129-147 run over the first k names of a listing of .xyz files: the
\* accumulators [all_lines, component_files, err] another run ends with
MergeListing(files, names, k) ==
    IF k = 0 THEN [all_lines |-> <<>>, component_files |-> <<>>, err |-> ""]
    ELSE LET before == MergeListing(files, names, k - 1)
             lines  == files[names[k]]
         IN  IF before.err # "" THEN before
             ELSE ReadLines(lines, Len(lines), before)

(***************************************************************************)
(* C11 as stated: the merged output of a session is the same in every run  *)
(* over the same leg files: whatever order a second run's directory        *)
(* listing returns the names in, it writes the lines this run has written. *)
(***************************************************************************)
C11_ListingIndependence ==
    ppc = "segment" =>
        \A listing \in Listings(DOMAIN scan_legs[bi].files) :
            LET names == SelectSeq2(listing, Len(listing))
            IN  MergeListing(scan_legs[bi].files, names, Len(names)).all_lines
                    = merged[bi].lines

RECURSIVE GroupSizes(_, _)
\* the number of rows in the groups of cf keyed by ids
GroupSizes(cf, ids) ==
    IF ids = {} THEN 0
    ELSE LET id == CHOOSE x \in ids : TRUE
         IN  Len(cf[id]) + GroupSizes(cf, ids \ {id})

(***************************************************************************)
(* C12: after a successful merge the component groups partition the merged *)
(* rows.  The keys are the integers found in column index 8; the group of  *)
(* a key is the subsequence of the merged rows that carry it, in merged    *)
(* order; the group sizes add up to the number of merged rows.             *)
(***************************************************************************)
C12_GroupingPartition ==
    ppc = "segment" =>
        LET rows == merged[bi].lines
        IN  /\ DOMAIN component_files = {rows[i].cells[9] : i \in 1..Len(rows)}
            /\ \A id \in DOMAIN component_files :
                  component_files[id] = SelectSeq(rows, LAMBDA l : l.cells[9] = id)
            /\ GroupSizes(component_files, DOMAIN component_files) = Len(rows)

C12_Witness ==
    /\ ppc = "segment"
    /\ Cardinality(DOMAIN component_files) >= 2
    /\ \E id \in DOMAIN component_files :
          /\ Len(component_files[id]) >= 2
          /\ component_files[id][1] # component_files[id][2]

RECURSIVE ListedConcat(_, _, _)
\* the non-blank lines of the first k files of names, file after file
ListedConcat(files, names, k) ==
    IF k = 0 THEN <<>>
    ELSE ListedConcat(files, names, k - 1) \o NonBlank(files[names[k]])

(***************************************************************************)
(* C13: the merged output holds, for each leg file read, its non-blank     *)
(* rows in the order they have in the file; a blank or whitespace-only     *)
(* line is neither in the merged rows nor in a component group.            *)
(***************************************************************************)
C13_RowOrderNoBlanks ==
    ppc = "segment" =>
        /\ merged[bi].lines
              = ListedConcat(scan_legs[bi].files, xyz_files, Len(xyz_files))
        /\ \A i \in 1..Len(merged[bi].lines) : merged[bi].lines[i] # BlankLine
        /\ \A id \in DOMAIN component_files :
              \A i \in 1..Len(component_files[id]) :
                 component_files[id][i] # BlankLine

C13_Witness ==
    /\ ppc = "segment"
    /\ \E name \in DOMAIN scan_legs[bi].files :
          /\ name.ext = "xyz"
          /\ Len(NonBlank(scan_legs[bi].files[name])) >= 2
          /\ Len(scan_legs[bi].files[name]) > Len(NonBlank(scan_legs[bi].files[name]))
    /\ Len(merged[bi].lines) >= 3

\* a row with fewer than 9 fields or with a non-integer 9th field
IsMalformed(line) ==
    line # BlankLine /\ (Len(line.cells) < 9 \/ ~line.f9int)

\* the leg file holds a malformed row
MalformedFile(files, name) ==
    name.ext = "xyz" /\ \E i \in 1..Len(files[name]) : IsMalformed(files[name][i])

\* the session of bridge b has a latest scan folder with a malformed leg row
MalformedSession(b) ==
    /\ scan_legs[b].exists
    /\ scan_legs[b].has_folder
    /\ \E name \in DOMAIN scan_legs[b].files : MalformedFile(scan_legs[b].files, name)

(***************************************************************************)
(* C14: when a leg row of the session has fewer than 9 fields or a         *)
(* non-integer 9th field, the merge ends in the parse error raised at that *)
(* row: reading never goes on past a file with such a row, no step after   *)
(* the merge is reached, and no merged file is written for the session.    *)
(***************************************************************************)
C14_MalformedRowAborts ==
    (bi > 0 /\ MalformedSession(bi)) =>
        /\ merged[bi] = NoFile
        /\ ppc \notin {"segment", "convert", "converting", "complete"}
        /\ ppc = "read_legs" =>
              \A k \in 1..leg_i : ~MalformedFile(scan_legs[bi].files, xyz_files[k])
        /\ ppc = "raised" =>
              leg_i > 0 /\ MalformedFile(scan_legs[bi].files, xyz_files[leg_i])

C14_Witness ==
    /\ bi > 0
    /\ MalformedSession(bi)
    /\ ppc = "raised"
    /\ leg_i = Len(xyz_files)
    /\ Len(all_lines) >= 2
    /\ merged[bi] = NoFile

\* the scan-leg directory of bridge b or its timestamped folder is absent
AbsentSource(b) == ~scan_legs[b].exists \/ ~scan_legs[b].has_folder

(***************************************************************************)
(* C15 as stated: when the scan-leg directory of the bridge in process or  *)
(* the timestamped folder inside it is absent, the absence is reported,    *)
(* nothing is written for the session, and the pipeline goes on with the   *)
(* loop over the bridges instead of ending in an exception.                *)
(***************************************************************************)
C15_AbsentInputSkipsSession ==
    (bi > 0 /\ run_simulation /\ AbsentSource(bi)
        /\ ppc \notin {"simulate", "find_scan"})
        => /\ ppc \in {"complete", "loop", "done"}
           /\ merged[bi] = NoFile
           /\ \E i \in 1..Len(stdout) : stdout[i] = "output_dir_not_found"

\* the merged file of bridge b holds every non-blank row of the session's
\* leg files, all of them well-formed
CompleteMerge(b) ==
    /\ \E listing \in Listings(DOMAIN scan_legs[b].files) :
          LET names == SelectSeq2(listing, Len(listing))
          IN  merged[b].lines = ListedConcat(scan_legs[b].files, names, Len(names))
    /\ \A i \in 1..Len(merged[b].lines) : ~IsMalformed(merged[b].lines[i])

\* a tensor of TargetCount rows of finite numbers
WellFormedTensor(f) ==
    /\ f.shape[1] = TargetCount
    /\ Len(f.v) = TargetCount
    /\ \A i \in 1..Len(f.v) :
          /\ Len(f.v[i]) = f.shape[2]
          /\ \A j \in 1..Len(f.v[i]) : IsFinite(f.v[i][j])

(***************************************************************************)
(* C16 as stated: at every point of a run, whatever step has failed, every *)
(* merged file on disk is the complete merge of its session and every      *)
(* tensor on disk is a well-formed tensor: TargetCount rows of finite      *)
(* numbers, the output of a normalization that succeeded.                  *)
(***************************************************************************)
C16_NoMalformedArtifact ==
    /\ \A b \in 1..Len(merged) : merged[b].exists => CompleteMerge(b)
    /\ \A f \in npy_files : WellFormedTensor(f)

\* where a session stands after one more line of output: "start" between
\* sessions, then "merged", "grouped", "extracted", "serialized", "skipped";
\* "bad" when the line is out of order
LogStep(at, tag) ==
    CASE at = "start" /\ tag = "merged" -> "merged"
      [] at = "start" /\ tag = "output_dir_not_found" -> "skipped"
      [] at = "merged" /\ tag = "segmented" /\ run_segmentation -> "grouped"
      [] at = "merged" /\ tag = "no_segmentation" /\ ~run_segmentation -> "grouped"
      [] at = "grouped" /\ tag \in {"helios_format", "rgb_format"} /\ convert_to_npy
            -> "extracted"
      [] at = "grouped" /\ tag \in {"unsupported_format", "not_found"} /\ convert_to_npy
            -> "serialized"
      [] at = "extracted" /\ tag = "saved" -> "serialized"
      [] at = "grouped" /\ tag = "completed" /\ ~convert_to_npy -> "start"
      [] at \in {"serialized", "skipped"} /\ tag = "completed" -> "start"
      [] OTHER -> "bad"

RECURSIVE LogState(_, _)
LogState(log, k) ==
    IF k = 0 THEN "start" ELSE LogStep(LogState(log, k - 1), log[k])

\* the number of sessions the output reports as completed
Completed(log) == Len(SelectSeq(log, LAMBDA tag : tag = "completed"))

(***************************************************************************)
(* C17: the sessions are processed one after another.  The output of a run *)
(* is, session after session, merge, then segmentation if and only if      *)
(* requested, then extraction and serialization if and only if requested,  *)
(* then completion; nothing of a later bridge exists while an earlier one  *)
(* is in process, and a conversion in process is that of the bridge in     *)
(* process, after its merged file was written.                             *)
(***************************************************************************)
C17_SessionsInSequence ==
    /\ LogState(stdout, Len(stdout)) # "bad"
    /\ \A b \in 1..Len(merged) :
          b > bi => merged[b] = NoFile /\ segmented[b] = <<>>
    /\ Completed(stdout) \in {bi - 1, bi} \/ ~run_simulation
    /\ ppc = "simulate" => Completed(stdout) = bi - 1
    /\ cpc # "idle" =>
          /\ ppc = "converting"
          /\ merged[bi].exists
          /\ input_stem = bridges[bi] \o CompleteSuffix
          /\ LogState(stdout, Len(stdout)) \in {"grouped", "extracted", "serialized"}

C17_Witness ==
    /\ ppc = "done"
    /\ run_segmentation
    /\ convert_to_npy
    /\ stdout = <<"merged", "segmented", "helios_format", "saved", "completed",
                  "merged", "segmented", "helios_format", "saved", "completed">>

\* the letters of the pattern in upper case
UpperText == <<"B", "R", "I", "D", "G", "E", "_">>

\* stem holds bridge_ at position i, in any letter case when anycase, and
\* after it exactly n digits
HasPatternAt(stem, i, n, anycase) ==
    /\ n >= 1
    /\ i + Len(BridgeText) + n - 1 <= Len(stem)
    /\ \A k \in 1..Len(BridgeText) :
          \/ stem[i + k - 1] = BridgeText[k]
          \/ anycase /\ stem[i + k - 1] = UpperText[k]
    /\ \A k \in 1..n : stem[i + Len(BridgeText) + k - 1] \in Digits
    /\ \/ i + Len(BridgeText) + n > Len(stem)
       \/ stem[i + Len(BridgeText) + n] \notin Digits

\* the output name the claim gives a stem
ExpectedName(stem, anycase) ==
    LET hits == {h \in (1..Len(stem)) \X (1..Len(stem)) :
                    HasPatternAt(stem, h[1], h[2], anycase)}
    IN  IF hits = {} THEN stem \o <<"_">> \o KText \o NpyExt
        ELSE LET first == CHOOSE h \in hits : \A g \in hits : h[1] <= g[1]
             IN  BridgeText
                    \o SubSeq(stem, first[1] + Len(BridgeText),
                              first[1] + Len(BridgeText) + first[2] - 1)
                    \o <<"_">> \o KText \o NpyExt

(***************************************************************************)
(* C18 as stated: the tensor is saved under bridge_<digits>_<K>.npy, with  *)
(* the digits of the first occurrence, when the stem of the input file     *)
(* holds bridge_<digits> as written, in lower case; under                  *)
(* <stem>_<K>.npy otherwise.                                               *)
(***************************************************************************)
C18_NameFromPattern ==
    \A f \in npy_files : f.name = ExpectedName(input_stem, FALSE)

(***************************************************************************)
(* C18 amended: the tensor is saved under the lower-case                   *)
(* bridge_<digits>_<K>.npy, with the digits of the first occurrence, when  *)
(* the stem of the input file holds bridge_<digits> in any letter case;    *)
(* under <stem>_<K>.npy otherwise.                                         *)
(***************************************************************************)
C18_NameFromPatternAnyCase ==
    \A f \in npy_files : f.name = ExpectedName(input_stem, TRUE)

C18_Witness ==
    /\ input_stem = <<"B", "r", "i", "d", "g", "e", "_", "1", "2">>
    /\ \E f \in npy_files :
          f.name = BridgeText \o <<"1", "2", "_">> \o KText \o NpyExt

\* the number of tensors the output reports as saved
Saved(log) == Len(SelectSeq(log, LAMBDA tag : tag = "saved"))

(***************************************************************************)
(* C19 as stated: sessions whose source file stems differ derive different *)
(* output names, so that every tensor saved in the run is on disk under    *)
(* its own name: there are as many tensors in the output directory as      *)
(* sessions have saved one.                                                *)
(***************************************************************************)
C19_NoNameCollision ==
    (\A a, b \in 1..Len(bridges) : a # b => bridges[a] # bridges[b])
        => Cardinality(npy_files) = Saved(stdout)

(***************************************************************************)
(* C20: pc_norm keeps the number of rows and of channels, and leaves every *)
(* channel from column 3 on as it was, row by row and column by column.    *)
(***************************************************************************)
C20_NormFrame ==
    cpc = "save" =>
        /\ Len(point_cloud) = Len(NormInput)
        /\ \A i \in 1..Len(point_cloud) :
              /\ Len(point_cloud[i]) = Len(NormInput[i])
              /\ \A j \in 4..Len(point_cloud[i]) :
                    point_cloud[i][j] = NormInput[i][j]

C20_Witness ==
    /\ cpc = "save"
    /\ NCols = 6
    /\ ~add_color_padding
    /\ \E i, j \in 1..Len(point_cloud) : point_cloud[i][4] # point_cloud[j][4]
    /\ point_cloud[1][1] # NormInput[1][1]

(***************************************************************************)
(* C21 as stated: when pointcloud_complete_pipeline has come to its end,   *)
(* and when an exception leaves it, no file it opened is still open.       *)
(***************************************************************************)
C21_HandlesReleased ==
    ppc \in {"done", "raised"} => open_files = {}

\* the minimum squared distance of row q of the input to the rows selected
\* in the first k turns
FpsMinSqDist(k, q) == MinSqDist(fps.point, fps.centroids, k, q)

\* the rows that are farthest from the rows selected in the first k turns
FpsFarthest(k) ==
    {q \in 1..Len(fps.point) :
        \A r \in 1..Len(fps.point) : FpsMinSqDist(k, r) <= FpsMinSqDist(k, q)}

(***************************************************************************)
(* C22: in every turn after the first, farthest_point_sample selects the   *)
(* lowest index among the points whose minimum squared distance to the     *)
(* points selected before is maximal; the first index fixed, the selected  *)
(* indices are determined by the input.                                    *)
(***************************************************************************)
C22_LowestIndexOnTies ==
    fps.pc \in {"loop", "returned"} =>
        \A k \in 2..fps.i :
            /\ fps.centroids[k] + 1 \in FpsFarthest(k - 1)
            /\ \A q \in FpsFarthest(k - 1) : fps.centroids[k] + 1 <= q

C22_Witness ==
    /\ fps.pc = "returned"
    /\ \E k \in 2..fps.i :
          /\ Cardinality(FpsFarthest(k - 1)) >= 2
          /\ FpsMinSqDist(k - 1, fps.centroids[k] + 1) > 0
          /\ fps.centroids[k] # 0

(***************************************************************************)
(* C23: scanner_positions.json is written only when the loop has gone      *)
(* through all selected bridges, and then holds one entry per selected     *)
(* bridge, in the order of bridge_summary.json.  When an exception has     *)
(* left the loop, the file is not written and no bridge after the one that *)
(* raised has been taken up.                                               *)
(***************************************************************************)
C23_ScannerJsonAfterLoop ==
    /\ scanner_json.written <=> ppc = "done"
    /\ scanner_json.written =>
          /\ bi = Len(bridges)
          /\ scanner_json.entries = bridges
          /\ num_bridges.given => Len(scanner_json.entries) = num_bridges.n
    /\ ppc = "raised" =>
          /\ Len(scanner_info) = bi
          /\ \A b \in 1..Len(bridges) :
                b > bi => merged[b] = NoFile /\ segmented[b] = <<>>

C23_Witness ==
    /\ scanner_json.written
    /\ run_simulation
    /\ ~num_bridges.given
    /\ Len(scanner_json.entries) >= 2
    /\ scanner_json.entries[1] # scanner_json.entries[2]
    /\ \A b \in 1..Len(bridges) : merged[b].exists

(***************************************************************************)
(* C24.  call_openrouter with the key set.                                 *)
(***************************************************************************)
\* a response the claim calls a success: HTTP 200 with non-blank content
IsSuccess(r) == r.exc = "" /\ r.status = 200 /\ r.choices /\ TextNonBlank(r.content)

\* the requests of the running call follow the order of the models, one each
InModelOrder ==
    /\ Len(gen.requests) <= Len(Models)
    /\ \A k \in 1..Len(gen.requests) : gen.requests[k].model = Models[k]

\* no model is contacted after a success
NothingAfterSuccess ==
    \A k \in 1..Len(gen.requests) :
        IsSuccess(gen.requests[k].response) => k = Len(gen.requests)

\* a return gives the text of the first success
ReturnsFirstSuccess ==
    gen.pc = "returned" =>
        /\ gen.requests # <<>>
        /\ IsSuccess(gen.requests[Len(gen.requests)].response)
        /\ gen.result = gen.requests[Len(gen.requests)].response.content

\* RuntimeError only after all three models failed
RaisesAfterAllFailed ==
    gen.pc = "raised" =>
        /\ gen.raised = "RuntimeError"
        /\ Len(gen.requests) = Len(Models)
        /\ \A k \in 1..Len(gen.requests) : ~IsSuccess(gen.requests[k].response)

GenTotals == <<gen.total_cost, gen.total_input_tokens, gen.total_output_tokens>>

\* the totals change only on a returned success with usage, and never decrease
TotalsOnSuccessOnly ==
    /\ GenTotals' # GenTotals =>
          /\ gen.pc = "loop" /\ gen'.pc = "returned"
          /\ gen'.requests[Len(gen'.requests)].response.usage.present
    /\ gen'.total_cost >= gen.total_cost
    /\ gen'.total_input_tokens >= gen.total_input_tokens
    /\ gen'.total_output_tokens >= gen.total_output_tokens

\* C24: with the key set, call_openrouter asks the three models in their
\* fixed order, at most once each, returns the text of the first HTTP-200
\* response with non-blank content without asking a later model, raises
\* RuntimeError only after all three failed, and the global token and cost
\* totals change only on a returned success with usage data and never
\* decrease.
C24_FirstSuccessReturned ==
    [][gen.key =>
          /\ InModelOrder'
          /\ NothingAfterSuccess'
          /\ ReturnsFirstSuccess'
          /\ RaisesAfterAllFailed'
          /\ TotalsOnSuccessOnly]_vars

====
